---- MODULE Spec2Model ----
(***************************************************************************)
(* A model of aspects/schema.go: ParseSchema compiles a JSON schema into a *)
(* tree of nodes plus a table of named user types; StorageSchema.Validate  *)
(* checks a JSON document against it.                                      *)
(*                                                                         *)
(* JSON text is modelled by its token structure: a value is a record that  *)
(* keeps the literal spelling of scalars and the written order of object   *)
(* members, so two values are equal exactly when their bytes are.          *)
(* Operators that model a Go map loop return the SET of results the loop   *)
(* can produce, one per iteration order.                                   *)
(***************************************************************************)
EXTENDS Integers, Sequences, FiniteSets, TLC

\* ---------------------------------------------------------------- bounds
\* longest array written in a document
MaxLen == 2

\* callers that may be inside Validate at the same time
NumCallers == 2

\* ------------------------------------------------------------ JSON values
JNull == [t |-> "null", s |-> "", items |-> <<>>, pairs |-> <<>>]
JBool(lit) == [t |-> "bool", s |-> lit, items |-> <<>>, pairs |-> <<>>]
JNum(lit) == [t |-> "number", s |-> lit, items |-> <<>>, pairs |-> <<>>]
JStr(str) == [t |-> "string", s |-> str, items |-> <<>>, pairs |-> <<>>]
JArr(elems) == [t |-> "array", s |-> "", items |-> elems, pairs |-> <<>>]
JObj(members) == [t |-> "object", s |-> "", items |-> <<>>, pairs |-> members]
P(key, value) == [k |-> key, v |-> value]

\* json.Unmarshal into map[string]json.RawMessage: the keys of the object
ObjKeys(raw) == {raw.pairs[i].k : i \in DOMAIN raw.pairs}

\* ... and the raw value kept under a key (a repeated key keeps its last value)
ObjGet(raw, key) ==
  LET last == CHOOSE i \in DOMAIN raw.pairs :
                /\ raw.pairs[i].k = key
                /\ \A j \in DOMAIN raw.pairs : j > i => raw.pairs[j].k # key
  IN raw.pairs[last].v

Has(raw, key) == key \in ObjKeys(raw)

\* strconv on a number literal, in tenths
ParseFloat(lit) ==
  CASE lit = "0" -> 0
    [] lit = "1" -> 10
    [] lit = "2" -> 20
    [] lit = "3" -> 30
    [] lit = "1.0" -> 10
    [] lit = "1.5" -> 15
    [] lit = "2.0" -> 20
    [] OTHER -> 0

\* a number literal json.Unmarshal stores into an int64
IsInt64Literal(lit) == lit \in {"0", "1", "2", "3"}

\* regexp.Compile succeeds
RegexpCompiles(patt) == patt \in {"", "x", "^y$"}

\* (*Regexp).Match: an unanchored search
RegexpMatch(patt, str) ==
  CASE patt = "" -> TRUE
    [] patt = "x" -> str \in {"x", "xy", "yx"}
    [] patt = "^y$" -> str = "y"
    [] OTHER -> FALSE

\* names made of lower-case letters, digits and inner dashes
LowerNames == {"a", "b", "c", "t", "u", "x", "y", "xy"}

validSubkey(key) == key \in LowerNames

validUserType(name) == name \in LowerNames

\* ----------------------------------------------------------------- nodes
None == <<>>
Some(x) == <<x>>

\* the zero value of every node struct, in one record shape
NewNode(k) ==
  [kind |-> k, name |-> "",
   entrySchemas |-> None, keySchema |-> None, valueSchema |-> None,
   requiredCombs |-> <<>>,
   choices |-> <<>>, pattern |-> None,
   nchoices |-> <<>>, min |-> None, max |-> None,
   elementType |-> None, unique |-> FALSE]

\* the *userTypeRefParser registered under a name: every reference shares it
RefNode(n) == [NewNode("ref") EXCEPT !.name = n]

NoTypes == [n \in {} |-> NewNode("any")]

Range(seq) == {seq[i] : i \in DOMAIN seq}

\* ------------------------------------------------------ validation errors
Key(k) == [isKey |-> TRUE, key |-> k, idx |-> 0]
Idx(i) == [isKey |-> FALSE, key |-> "", idx |-> i]

Ok == [ok |-> TRUE, path |-> <<>>, err |-> ""]

validationErrorf(e) == [ok |-> FALSE, path |-> <<>>, err |-> e]

\* faulty variant: the locator appended after the inner path
PrependAtEnd(loc, r) == [r EXCEPT !.path = r.path \o <<loc>>]

\* valErr.Path = append([]interface{}{loc}, valErr.Path...)
Prepend(loc, r) == [r EXCEPT !.path = <<loc>> \o r.path]

RECURSIVE RenderPath(_, _)
RenderPath(path, i) ==
  IF i > Len(path) THEN ""
  ELSE (IF path[i].isKey
        THEN (IF i > 1 THEN "." ELSE "") \o path[i].key
        ELSE "[" \o ToString(path[i].idx) \o "]") \o RenderPath(path, i + 1)

ValidationErrorMsg(r) ==
  IF Len(r.path) = 0 THEN "cannot accept top level element"
  ELSE "cannot accept element in \"" \o RenderPath(r.path, 1) \o "\""

\* ------------------------------------------------------------- validation
validateNumber(num, choices, min, max) ==
  IF Len(choices) # 0 /\ num \notin Range(choices) THEN validationErrorf("choices")
  ELSE IF min # None /\ num < min[1] THEN validationErrorf("min")
  ELSE IF max # None /\ num > max[1] THEN validationErrorf("max")
  ELSE Ok

stringSchemaValidate(v, raw) ==
  IF raw.t = "null" THEN validationErrorf("null")
  ELSE IF raw.t # "string" THEN validationErrorf("type")
  ELSE IF Len(v.choices) # 0 /\ raw.s \notin Range(v.choices)
    THEN validationErrorf("choices")
  ELSE IF v.pattern # None /\ ~RegexpMatch(v.pattern[1], raw.s)
    THEN validationErrorf("pattern")
  ELSE Ok

intSchemaValidate(v, raw) ==
  IF raw.t = "null" THEN validationErrorf("null")
  ELSE IF raw.t # "number" \/ ~IsInt64Literal(raw.s) THEN validationErrorf("type")
  ELSE validateNumber(ParseFloat(raw.s), v.nchoices, v.min, v.max)

numberSchemaValidate(v, raw) ==
  IF raw.t = "null" THEN validationErrorf("null")
  ELSE IF raw.t # "number" THEN validationErrorf("type")
  ELSE validateNumber(ParseFloat(raw.s), v.nchoices, v.min, v.max)

booleanSchemaValidate(v, raw) ==
  IF raw.t = "null" THEN validationErrorf("null")
  ELSE IF raw.t # "bool" THEN validationErrorf("type")
  ELSE Ok

\* faulty variant: the nil check left out
anySchemaValidateNoNilCheck(v, raw) == Ok

anySchemaValidate(v, raw) ==
  IF raw.t = "null" THEN validationErrorf("null") ELSE Ok

\* faulty variant: the loop returns after the first entry it visits
RangeMapFirstEntry(res, rem) ==
  IF rem = {} THEN {Ok} ELSE UNION {res[k] : k \in rem}

\* a range over a Go map that returns at the first failing entry: res[k] is
\* the set of results entry k can give
RECURSIVE RangeMap(_, _)
RangeMap(res, rem) ==
  IF rem = {} THEN {Ok}
  ELSE UNION {UNION {IF r.ok THEN RangeMap(res, rem \ {k}) ELSE {r} : r \in res[k]}
              : k \in rem}

\* a range over a slice, in index order, from index i
RECURSIVE RangeSlice(_, _)
RangeSlice(res, i) ==
  IF i > Len(res) THEN {Ok}
  ELSE UNION {IF r.ok THEN RangeSlice(res, i + 1) ELSE {r} : r \in res[i]}

\* faulty variant: the loop without its break: the last combination decides
RECURSIVE requiredMissingNoBreak(_, _, _, _)
requiredMissingNoBreak(combs, i, missing, keys) ==
  IF i > Len(combs) THEN missing
  ELSE requiredMissingNoBreak(combs, i + 1,
                              \E j \in DOMAIN combs[i] : combs[i][j] \notin keys, keys)

\* the loop over requiredCombs; the value of `missing` after it
RECURSIVE requiredMissing(_, _, _, _)
requiredMissing(combs, i, missing, keys) ==
  IF i > Len(combs) THEN missing
  ELSE IF \E j \in DOMAIN combs[i] : combs[i][j] \notin keys
    THEN requiredMissing(combs, i + 1, TRUE, keys)
    ELSE FALSE

\* the value a JSON text decodes to: numbers by value, objects as maps
RECURSIVE Decoded(_)
Decoded(raw) ==
  CASE raw.t = "number" -> [t |-> "number", n |-> ParseFloat(raw.s)]
    [] raw.t = "array" -> [t |-> "array", n |-> [i \in DOMAIN raw.items |-> Decoded(raw.items[i])]]
    [] raw.t = "object" -> [t |-> "object", n |-> [k \in ObjKeys(raw) |-> Decoded(ObjGet(raw, k))]]
    [] OTHER -> [t |-> raw.t, n |-> raw.s]

\* faulty variant: elements compared by decoded value instead of by their bytes
hasDuplicateDecoded(items) ==
  \E i, j \in DOMAIN items :
    i < j /\ items[i].t = items[j].t /\ Decoded(items[i]) = Decoded(items[j])

\* the duplicate scan of an array with "unique"
hasDuplicate(items) ==
  \E i, j \in DOMAIN items : i < j /\ items[i] = items[j]

\* faulty variant: the scan for keys without an entry schema left out
hasUnexpectedKeyNever(v, keys) == FALSE

\* the scan of an exact-shape map for a key without an entry schema
hasUnexpectedKey(v, keys) ==
  v.entrySchemas # None /\ \E k \in keys : k \notin DOMAIN v.entrySchemas[1]

RECURSIVE Validate(_, _, _)

\* faulty variant: the entry values validated before the required keys
mapSchemaValidateValuesFirst(ut, v, raw) ==
  LET entryRes ==
        RangeMap([k \in ObjKeys(raw) \cap DOMAIN v.entrySchemas[1] |->
                   {IF r.ok THEN r ELSE Prepend(Key(k), r)
                    : r \in Validate(ut, v.entrySchemas[1][k], ObjGet(raw, k))}],
                 ObjKeys(raw) \cap DOMAIN v.entrySchemas[1])
      keyRes ==
        IF v.keySchema = None THEN {Ok}
        ELSE RangeMap([k \in ObjKeys(raw) |->
                        {IF r.ok THEN r ELSE Prepend(Key(k), r)
                         : r \in Validate(ut, v.keySchema[1], JStr(k))}],
                      ObjKeys(raw))
      valRes ==
        IF v.valueSchema = None THEN {Ok}
        ELSE RangeMap([k \in ObjKeys(raw) |->
                        {IF r.ok THEN r ELSE Prepend(Key(k), r)
                         : r \in Validate(ut, v.valueSchema[1], ObjGet(raw, k))}],
                      ObjKeys(raw))
  IN IF raw.t = "null" THEN {validationErrorf("null")}
     ELSE IF raw.t # "object" THEN {validationErrorf("type")}
     ELSE IF \E k \in ObjKeys(raw) : ~validSubkey(k) THEN {validationErrorf("key-format")}
     ELSE IF hasUnexpectedKey(v, ObjKeys(raw)) THEN {validationErrorf("unexpected-key")}
     ELSE IF v.entrySchemas # None
       THEN UNION {IF ~r.ok THEN {r}
                   ELSE IF requiredMissing(v.requiredCombs, 1, FALSE, ObjKeys(raw))
                     THEN {validationErrorf("required")}
                     ELSE {Ok}
                   : r \in entryRes}
     ELSE IF requiredMissing(v.requiredCombs, 1, FALSE, ObjKeys(raw))
       THEN {validationErrorf("required")}
     ELSE UNION {IF r.ok THEN valRes ELSE {r} : r \in keyRes}

mapSchemaValidate(ut, v, raw) ==
  IF raw.t = "null" THEN {validationErrorf("null")}
  ELSE IF raw.t # "object" THEN {validationErrorf("type")}
  ELSE IF \E k \in ObjKeys(raw) : ~validSubkey(k) THEN {validationErrorf("key-format")}
  ELSE IF hasUnexpectedKey(v, ObjKeys(raw)) THEN {validationErrorf("unexpected-key")}
  ELSE IF requiredMissing(v.requiredCombs, 1, FALSE, ObjKeys(raw))
    THEN {validationErrorf("required")}
  ELSE IF v.entrySchemas # None
    THEN RangeMap([k \in ObjKeys(raw) \cap DOMAIN v.entrySchemas[1] |->
                    {IF r.ok THEN r ELSE Prepend(Key(k), r)
                     : r \in Validate(ut, v.entrySchemas[1][k], ObjGet(raw, k))}],
                  ObjKeys(raw) \cap DOMAIN v.entrySchemas[1])
  ELSE
    LET keyRes ==
          IF v.keySchema = None THEN {Ok}
          ELSE RangeMap([k \in ObjKeys(raw) |->
                          {IF r.ok THEN r ELSE Prepend(Key(k), r)
                           : r \in Validate(ut, v.keySchema[1], JStr(k))}],
                        ObjKeys(raw))
        valRes ==
          IF v.valueSchema = None THEN {Ok}
          ELSE RangeMap([k \in ObjKeys(raw) |->
                          {IF r.ok THEN r ELSE Prepend(Key(k), r)
                           : r \in Validate(ut, v.valueSchema[1], ObjGet(raw, k))}],
                        ObjKeys(raw))
    IN UNION {IF r.ok THEN valRes ELSE {r} : r \in keyRes}

arraySchemaValidate(ut, v, raw) ==
  IF raw.t = "null" THEN {validationErrorf("null")}
  ELSE IF raw.t # "array" THEN {validationErrorf("type")}
  ELSE
    LET elems == RangeSlice([e \in DOMAIN raw.items |->
                              {IF r.ok THEN r ELSE Prepend(Idx(e - 1), r)
                               : r \in Validate(ut, v.elementType[1], raw.items[e])}],
                            1)
    IN UNION {IF ~r.ok THEN {r}
              ELSE IF v.unique /\ hasDuplicate(raw.items)
                THEN {validationErrorf("duplicate")}
                ELSE {Ok}
              : r \in elems}

\* Schema.Validate, dispatched on the node's dynamic type; a user type
\* reference delegates to the node registered under its name
Validate(ut, v, raw) ==
  CASE v.kind = "ref" -> Validate(ut, ut[v.name], raw)
    [] v.kind = "map" -> mapSchemaValidate(ut, v, raw)
    [] v.kind = "array" -> arraySchemaValidate(ut, v, raw)
    [] v.kind = "string" -> {stringSchemaValidate(v, raw)}
    [] v.kind = "int" -> {intSchemaValidate(v, raw)}
    [] v.kind = "number" -> {numberSchemaValidate(v, raw)}
    [] v.kind = "bool" -> {booleanSchemaValidate(v, raw)}
    [] OTHER -> {anySchemaValidate(v, raw)}

\* ------------------------------------------------- json.Unmarshal targets
\* a nil map or slice decodes from null without an error
IsObjectOrNull(raw) == raw.t \in {"object", "null"}

IsString(raw) == raw.t \in {"string", "null"}

IsStringList(raw) ==
  raw.t \in {"array", "null"} /\ \A i \in DOMAIN raw.items : IsString(raw.items[i])

IsStringListList(raw) ==
  raw.t \in {"array", "null"} /\ \A i \in DOMAIN raw.items : IsStringList(raw.items[i])

StringList(raw) == [i \in DOMAIN raw.items |-> raw.items[i].s]

StringListList(raw) == [i \in DOMAIN raw.items |-> StringList(raw.items[i])]

IsInt64(raw) == raw.t = "null" \/ (raw.t = "number" /\ IsInt64Literal(raw.s))

IsFloat64(raw) == raw.t \in {"number", "null"}

IsInt64List(raw) ==
  raw.t \in {"array", "null"} /\ \A i \in DOMAIN raw.items : IsInt64(raw.items[i])

IsFloat64List(raw) ==
  raw.t \in {"array", "null"} /\ \A i \in DOMAIN raw.items : IsFloat64(raw.items[i])

NumberList(raw) == [i \in DOMAIN raw.items |-> ParseFloat(raw.items[i].s)]

IsBool(raw) == raw.t \in {"bool", "null"}

\* ---------------------------------------------------------------- compile
\* what a parse step returns: the node (or an error) and the type table,
\* which compiling a reference may have written to
Fail == [ok |-> FALSE, node |-> NewNode("any"), ut |-> NoTypes]
Parsed(n, types) == [ok |-> TRUE, node |-> n, ut |-> types]

TypeNames == LowerNames \cup {"T", "map", ""}

IsRef(typ) == \E n \in TypeNames : typ = "$" \o n

TrimDollar(typ) == CHOOSE n \in TypeNames : typ = "$" \o n

getUserType(ut, ref) ==
  IF ref \in DOMAIN ut THEN Parsed(RefNode(ref), ut) ELSE Fail

\* newUserTypeRefParser's stringBased, fixed when the type is registered
isStringBased(ut, ref) == ut[ref].kind = "string"

newTypeSchema(ut, typ) ==
  IF typ \in {"map", "string", "int", "any", "number", "bool", "array"}
    THEN Parsed(NewNode(typ), ut)
  ELSE IF IsRef(typ) THEN getUserType(ut, TrimDollar(typ))
  ELSE Fail

stringSchemaParseConstraints(v, c) ==
  LET okChoices == ~Has(c, "choices")
                   \/ (IsStringList(ObjGet(c, "choices"))
                       /\ Len(ObjGet(c, "choices").items) # 0)
      v1 == IF Has(c, "choices") /\ okChoices
              THEN [v EXCEPT !.choices = StringList(ObjGet(c, "choices"))]
              ELSE v
  IN IF ~okChoices THEN Fail
     ELSE IF ~Has(c, "pattern") THEN Parsed(v1, NoTypes)
     ELSE IF v1.choices # <<>> THEN Fail
     ELSE IF ~IsString(ObjGet(c, "pattern")) THEN Fail
     ELSE IF ~RegexpCompiles(ObjGet(c, "pattern").s) THEN Fail
     ELSE Parsed([v1 EXCEPT !.pattern = Some(ObjGet(c, "pattern").s)], NoTypes)

\* intSchema.parseConstraints and numberSchema.parseConstraints differ in the
\* Go type the numbers are decoded into
numericParseConstraints(v, c, int64) ==
  LET isNum(raw) == IF int64 THEN IsInt64(raw) ELSE IsFloat64(raw)
      isNumList(raw) == IF int64 THEN IsInt64List(raw) ELSE IsFloat64List(raw)
      okChoices == ~Has(c, "choices")
                   \/ (isNumList(ObjGet(c, "choices"))
                       /\ Len(ObjGet(c, "choices").items) # 0)
      v1 == IF Has(c, "choices") /\ okChoices
              THEN [v EXCEPT !.nchoices = NumberList(ObjGet(c, "choices"))]
              ELSE v
      badMin == Has(c, "min") /\ (v1.nchoices # <<>> \/ ~isNum(ObjGet(c, "min")))
      v2 == IF Has(c, "min") /\ ~badMin
              THEN [v1 EXCEPT !.min = Some(ParseFloat(ObjGet(c, "min").s))]
              ELSE v1
      badMax == Has(c, "max") /\ (v2.nchoices # <<>> \/ ~isNum(ObjGet(c, "max")))
      v3 == IF Has(c, "max") /\ ~badMax
              THEN [v2 EXCEPT !.max = Some(ParseFloat(ObjGet(c, "max").s))]
              ELSE v2
  IN IF ~okChoices \/ badMin \/ badMax THEN Fail
     ELSE IF v3.min # None /\ v3.max # None /\ v3.min[1] > v3.max[1] THEN Fail
     ELSE Parsed(v3, NoTypes)

intSchemaParseConstraints(v, c) ==
  numericParseConstraints(v, c, TRUE)

numberSchemaParseConstraints(v, c) ==
  numericParseConstraints(v, c, FALSE)

checkExclusiveMapConstraints(obj) ==
  /\ ~(Has(obj, "required") /\ ~Has(obj, "schema"))
  /\ ~(Has(obj, "schema") /\ Has(obj, "keys"))
  /\ ~(Has(obj, "schema") /\ Has(obj, "values"))

parseMapKeyType(ut, raw) ==
  IF raw.t = "string" THEN
    IF raw.s = "string" THEN Parsed(NewNode("string"), ut)
    ELSE IF IsRef(raw.s) THEN
      LET userType == getUserType(ut, TrimDollar(raw.s))
      IN IF ~userType.ok THEN Fail
         ELSE IF ~isStringBased(ut, TrimDollar(raw.s)) THEN Fail
         ELSE userType
    ELSE Fail
  ELSE IF raw.t = "null" THEN Fail
  ELSE IF raw.t # "object" THEN Fail
  ELSE IF Has(raw, "type")
          /\ (~IsString(ObjGet(raw, "type")) \/ ObjGet(raw, "type").s # "string")
    THEN Fail
  ELSE LET schema == stringSchemaParseConstraints(NewNode("string"), raw)
       IN IF schema.ok THEN Parsed(schema.node, ut) ELSE Fail

\* the "required" constraint, decoded as a list of lists or else as one list
requiredOf(rawRequired) ==
  IF IsStringListList(rawRequired) THEN Some(StringListList(rawRequired))
  ELSE IF IsStringList(rawRequired) THEN Some(<<StringList(rawRequired)>>)
  ELSE None

Extend(f, k, x) == [j \in DOMAIN f \cup {k} |-> IF j = k THEN x ELSE f[j]]

RECURSIVE parse(_, _)
RECURSIVE parseConstraints(_, _, _)

\* the loop over the entries of "schema", in any order; v.entrySchemas grows
RECURSIVE parseEntries(_, _, _, _)
parseEntries(ut, v, entries, rem) ==
  IF rem = {} THEN {Parsed(v, ut)}
  ELSE UNION {UNION {IF ~o.ok THEN {Fail}
                     ELSE parseEntries(o.ut,
                            [v EXCEPT !.entrySchemas =
                               Some(Extend(v.entrySchemas[1], key, o.node))],
                            entries, rem \ {key})
                     : o \in parse(ut, ObjGet(entries, key))}
              : key \in rem}

mapSchemaParseConstraints(ut, v, c) ==
  IF ~checkExclusiveMapConstraints(c) THEN {Fail}
  ELSE IF Has(c, "schema") THEN
    LET entries == ObjGet(c, "schema")
    IN IF ~IsObjectOrNull(entries) THEN {Fail}
       ELSE IF \E k \in ObjKeys(entries) : ~validSubkey(k) THEN {Fail}
       ELSE {IF ~o.ok THEN Fail
             ELSE IF ~Has(c, "required") THEN o
             ELSE LET req == requiredOf(ObjGet(c, "required"))
                  IN IF req = None THEN Fail
                     ELSE IF \E i \in DOMAIN req[1] : \E j \in DOMAIN req[1][i] :
                               req[1][i][j] \notin DOMAIN o.node.entrySchemas[1]
                       THEN Fail
                     ELSE Parsed([o.node EXCEPT !.requiredCombs = req[1]], o.ut)
             : o \in parseEntries(ut, [v EXCEPT !.entrySchemas = Some(NoTypes)],
                                  entries, ObjKeys(entries))}
  ELSE
    LET keyType == IF Has(c, "keys") THEN parseMapKeyType(ut, ObjGet(c, "keys"))
                   ELSE Fail
        v1 == IF Has(c, "keys") /\ keyType.ok
                THEN [v EXCEPT !.keySchema = Some(keyType.node)] ELSE v
        values == IF Has(c, "values") THEN parse(ut, ObjGet(c, "values"))
                  ELSE {Parsed(NewNode("any"), ut)}
    IN IF Has(c, "keys") /\ ~keyType.ok THEN {Fail}
       ELSE {IF ~o.ok THEN Fail
             ELSE LET v2 == IF Has(c, "values")
                              THEN [v1 EXCEPT !.valueSchema = Some(o.node)] ELSE v1
                  IN IF v2.entrySchemas = None /\ v2.keySchema = None
                        /\ v2.valueSchema = None
                       THEN Fail
                       ELSE Parsed(v2, o.ut)
             : o \in values}

arraySchemaParseConstraints(ut, v, c) ==
  IF ~Has(c, "values") THEN {Fail}
  ELSE {IF ~o.ok THEN Fail
        ELSE IF ~Has(c, "unique")
          THEN Parsed([v EXCEPT !.elementType = Some(o.node)], o.ut)
        ELSE IF ~IsBool(ObjGet(c, "unique")) THEN Fail
        ELSE Parsed([v EXCEPT !.elementType = Some(o.node),
                              !.unique = (ObjGet(c, "unique").s = "true")], o.ut)
        : o \in parse(ut, ObjGet(c, "values"))}

\* parser.parseConstraints, dispatched on the node's dynamic type.  A
\* *userTypeRefParser embeds the parser it wraps, so the call lands on the
\* node registered in the table, which is written in place.
parseConstraints(ut, v, c) ==
  CASE v.kind = "ref" ->
         {IF ~o.ok THEN Fail
          ELSE Parsed(v, [o.ut EXCEPT ![v.name] = o.node])
          : o \in parseConstraints(ut, ut[v.name], c)}
    [] v.kind = "map" -> mapSchemaParseConstraints(ut, v, c)
    [] v.kind = "array" -> arraySchemaParseConstraints(ut, v, c)
    [] v.kind = "string" ->
         LET o == stringSchemaParseConstraints(v, c)
         IN {IF o.ok THEN Parsed(o.node, ut) ELSE Fail}
    [] v.kind = "int" ->
         LET o == intSchemaParseConstraints(v, c)
         IN {IF o.ok THEN Parsed(o.node, ut) ELSE Fail}
    [] v.kind = "number" ->
         LET o == numberSchemaParseConstraints(v, c)
         IN {IF o.ok THEN Parsed(o.node, ut) ELSE Fail}
    [] OTHER -> {Parsed(v, ut)}

expectsConstraints(v) == v.kind \in {"map", "array"}

\* StorageSchema.parse
parse(ut, raw) ==
  LET isDef == raw.t = "object"
      typ == IF raw.t = "string" THEN raw.s
             ELSE IF raw.t = "object" /\ Has(raw, "type") THEN ObjGet(raw, "type").s
             ELSE "map"
      schema == newTypeSchema(ut, typ)
  IN IF raw.t \notin {"object", "null", "string"} THEN {Fail}
     ELSE IF isDef /\ Has(raw, "type") /\ ~IsString(ObjGet(raw, "type")) THEN {Fail}
     ELSE IF ~schema.ok THEN {Fail}
     ELSE IF isDef THEN parseConstraints(ut, schema.node, raw)
     ELSE IF expectsConstraints(schema.node) THEN {Fail}
     ELSE {schema}

\* the loop over "types" taken in the given order of names
RECURSIVE parseUserTypes(_, _, _, _)
parseUserTypes(ut, userTypes, order, i) ==
  IF i > Len(order) THEN {Parsed(NewNode("any"), ut)}
  ELSE IF ~validUserType(order[i]) THEN {Fail}
  ELSE UNION {IF ~o.ok THEN {Fail}
              ELSE parseUserTypes(Extend(o.ut, order[i], o.node), userTypes, order, i + 1)
              : o \in parse(ut, ObjGet(userTypes, order[i]))}

\* the orders in which a range over a Go map can visit a set of keys
Orders(keys) ==
  {o \in [1..Cardinality(keys) -> keys] : \A i, j \in DOMAIN o : i # j => o[i] # o[j]}

\* ParseSchema, with the order its range over "types" takes; node is topLevel
ParseSchemaIn(raw, order) ==
  IF raw.t \notin {"object", "null"} THEN {Fail}
  ELSE IF Has(raw, "type")
          /\ (~IsString(ObjGet(raw, "type")) \/ ObjGet(raw, "type").s # "map")
    THEN {Fail}
  ELSE IF ~Has(raw, "schema") THEN {Fail}
  ELSE IF Has(raw, "types") /\ ~IsObjectOrNull(ObjGet(raw, "types")) THEN {Fail}
  ELSE UNION {IF ~o.ok THEN {Fail} ELSE parse(o.ut, raw)
              : o \in IF Has(raw, "types")
                        THEN parseUserTypes(NoTypes, ObjGet(raw, "types"), order, 1)
                        ELSE {Parsed(NewNode("any"), NoTypes)}}

TypesOrders(raw) ==
  IF raw.t = "object" /\ Has(raw, "types") /\ ObjGet(raw, "types").t = "object"
    THEN Orders(ObjKeys(ObjGet(raw, "types")))
    ELSE {<<>>}


\* ------------------------------------------------------- schema universe
O1(k1, v1) == JObj(<<P(k1, v1)>>)
O2(k1, v1, k2, v2) == JObj(<<P(k1, v1), P(k2, v2)>>)
O3(k1, v1, k2, v2, k3, v3) == JObj(<<P(k1, v1), P(k2, v2), P(k3, v3)>>)
StrArr(l) == JArr([i \in DOMAIN l |-> JStr(l[i])])
NumArr(l) == JArr([i \in DOMAIN l |-> JNum(l[i])])
Typ(n) == JStr(n)

ScalarDefs ==
  {Typ("string"), Typ("int"), Typ("number"), Typ("bool"), Typ("any"),
   Typ("map"), Typ("array"), Typ("bogus"), JNull, JNum("1"),
   O1("type", Typ("string")),
   O1("type", JNum("1")),
   O2("type", Typ("string"), "choices", StrArr(<<"x", "y">>)),
   O2("type", Typ("string"), "pattern", JStr("x")),
   O2("type", Typ("string"), "pattern", JStr("(")),
   O2("type", Typ("string"), "choices", StrArr(<<>>)),
   O3("type", Typ("string"), "choices", StrArr(<<"x">>), "pattern", JStr("x")),
   O3("type", Typ("string"), "pattern", JStr("x"), "choices", StrArr(<<"x">>)),
   O3("type", Typ("int"), "min", JNum("1"), "max", JNum("2")),
   O3("type", Typ("int"), "min", JNum("2"), "max", JNum("1")),
   O2("type", Typ("int"), "choices", NumArr(<<"1", "2">>)),
   O2("type", Typ("int"), "min", JNum("1.5")),
   O3("type", Typ("int"), "choices", NumArr(<<"1">>), "min", JNum("1")),
   O3("type", Typ("int"), "max", JNum("1"), "choices", NumArr(<<"1">>)),
   O2("type", Typ("number"), "min", JNum("1.5")),
   O2("type", Typ("number"), "max", JNum("1.5")),
   O2("type", Typ("number"), "choices", NumArr(<<"1.0", "2">>)),
   O3("type", Typ("number"), "choices", NumArr(<<"1">>), "max", JNum("1")),
   O2("type", Typ("bool"), "choices", StrArr(<<"x">>))}

CompositeDefs ==
  {O2("type", Typ("array"), "values", Typ("int")),
   O2("type", Typ("array"), "values", Typ("string")),
   O3("type", Typ("array"), "values", Typ("any"), "unique", JBool("true")),
   O3("type", Typ("array"), "values", Typ("any"), "unique", JBool("false")),
   O3("type", Typ("array"), "values", Typ("number"), "unique", JBool("true")),
   O3("type", Typ("array"), "values", Typ("int"), "unique", JBool("true")),
   O3("type", Typ("array"), "values", Typ("any"), "unique", JNum("1")),
   O2("type", Typ("array"), "unique", JBool("true")),
   O1("type", Typ("array")),
   O2("type", Typ("array"), "values", O1("schema", O1("a", Typ("int")))),
   O1("schema", O1("a", Typ("int"))),
   O1("schema", O2("a", Typ("int"), "b", Typ("string"))),
   O2("schema", O2("a", Typ("int"), "b", Typ("string")), "required", StrArr(<<"a">>)),
   O2("keys", Typ("string"), "values", Typ("int")),
   O1("keys", Typ("string")),
   O1("keys", O2("type", Typ("string"), "choices", StrArr(<<"a">>))),
   O1("keys", O1("pattern", JStr("x"))),
   O1("keys", O1("type", Typ("int"))),
   O1("keys", Typ("int")),
   O1("keys", JNull),
   O1("values", Typ("any")),
   O1("values", Typ("int")),
   O1("type", Typ("map")),
   JObj(<<>>),
   O2("schema", JObj(<<>>), "keys", Typ("string")),
   O2("schema", JObj(<<>>), "values", Typ("int")),
   O2("required", StrArr(<<"a">>), "keys", Typ("string")),
   O1("schema", O1("_", Typ("int"))),
   O1("schema", JNum("1")),
   O1("schema", JNull)}

Top(entries) == O1("schema", entries)

ABC == O3("a", Typ("int"), "b", Typ("int"), "c", Typ("int"))

RequiredDefs ==
  {JArr(<<>>), JNull, JNum("1"),
   StrArr(<<"a">>), StrArr(<<"a", "b">>), StrArr(<<"x">>),
   JArr(<<StrArr(<<"a">>), StrArr(<<"b", "c">>)>>),
   JArr(<<StrArr(<<"b", "c">>), StrArr(<<"a">>)>>),
   JArr(<<StrArr(<<"a", "b">>), StrArr(<<"a", "c">>)>>),
   JArr(<<StrArr(<<>>)>>),
   JArr(<<StrArr(<<"a">>), JStr("b")>>)}

TopDefs ==
  {Top(ABC), JObj(<<>>), JNull, JNum("1"),
   O2("type", Typ("map"), "schema", ABC),
   O2("type", Typ("string"), "schema", ABC),
   O2("type", JNum("1"), "schema", ABC),
   O2("schema", ABC, "keys", Typ("string")),
   O2("schema", ABC, "values", Typ("int")),
   O2("schema", ABC, "types", JNum("1")),
   O2("schema", ABC, "types", JNull),
   O2("types", O1("T", Typ("string")), "schema", ABC),
   O2("types", O1("t", Typ("bogus")), "schema", ABC)}
  \cup {O2("schema", ABC, "required", r) : r \in RequiredDefs}

\* declarations of a named type, and the places that refer to it
UserTypeDefs ==
  {Typ("string"), Typ("any"), Typ("int"),
   O2("type", Typ("string"), "pattern", JStr("x")),
   O2("type", Typ("string"), "choices", StrArr(<<"x", "y">>)),
   O2("type", Typ("int"), "min", JNum("2")),
   O2("type", Typ("int"), "choices", NumArr(<<"1", "2">>)),
   O1("schema", O1("b", Typ("int"))),
   O2("keys", Typ("string"), "values", Typ("int")),
   O2("type", Typ("array"), "values", Typ("int"))}

RefDefs ==
  {Typ("$t"), Typ("$u"),
   O1("type", Typ("$t")),
   O2("type", Typ("$t"), "choices", StrArr(<<"x">>)),
   O2("type", Typ("$t"), "pattern", JStr("x")),
   O2("type", Typ("$t"), "choices", NumArr(<<"1">>)),
   O2("type", Typ("$t"), "max", JNum("1")),
   O2("type", Typ("$t"), "keys", Typ("string")),
   O2("type", Typ("$t"), "schema", O1("a", Typ("string"))),
   O3("type", Typ("$t"), "values", Typ("any"), "unique", JBool("true")),
   O1("keys", Typ("$t")),
   O2("type", Typ("array"), "values", Typ("$t"))}

SiblingRefs ==
  {Typ("$t"),
   O2("type", Typ("$t"), "choices", StrArr(<<"x">>)),
   O2("type", Typ("$t"), "pattern", JStr("x"))}

WithTypes(types, entries) == O2("types", types, "schema", entries)

TypedDefs ==
  {WithTypes(O1("t", d), O1("a", r)) : d \in UserTypeDefs, r \in RefDefs}
  \cup {WithTypes(O1("t", d), O2("a", r1, "b", r2))
        : d \in {Typ("string"), O2("type", Typ("string"), "pattern", JStr("x"))},
          r1 \in SiblingRefs, r2 \in SiblingRefs}
  \cup {WithTypes(O2("t", Typ("string"), "u", Typ("$t")), O1("a", Typ("$u"))),
        WithTypes(O2("t", Typ("string"), "u", Typ("$t")), O1("a", O1("keys", Typ("$u")))),
        WithTypes(O2("t", Typ("string"), "u", Typ("int")), O2("a", Typ("$t"), "b", Typ("$u"))),
        WithTypes(O2("t", O2("type", Typ("string"), "pattern", JStr("x")),
                     "u", O2("type", Typ("$t"), "choices", StrArr(<<"x">>))),
                  O2("a", Typ("$t"), "b", Typ("$u"))),
        WithTypes(O1("u", Typ("$u")), O1("a", Typ("$u"))),
        WithTypes(O2("t", Typ("string"), "u", O1("keys", Typ("$t"))), O1("a", Typ("$u"))),
        WithTypes(O2("t", Typ("int"), "u", O1("keys", Typ("$t"))), O1("a", Typ("$u")))}

Schemas == {Top(O1("a", e)) : e \in ScalarDefs \cup CompositeDefs} \cup TopDefs \cup TypedDefs

\* ----------------------------------------------------- document universe
Scalars ==
  {JNull, JBool("true"), JNum("1"), JNum("2"), JNum("3"), JNum("1.0"), JNum("1.5"),
   JStr("x"), JStr("y"), JStr("1")}

Elements == {JNull, JNum("1"), JNum("1.0"), JStr("1"), O1("a", JNum("1"))}

SeqsUpTo(S, n) == UNION {[1..m -> S] : m \in 0..n}

Arrays == {JArr(items) : items \in SeqsUpTo(Elements, MaxLen)}

InnerObjects ==
  {JObj(<<>>),
   O2("a", JNum("1"), "b", JStr("x")), O2("b", JStr("x"), "a", JNum("1")),
   O2("a", JStr("x"), "a", JNum("1"))}
  \cup {O1(k, val) : k \in {"a", "b", "_"}, val \in {JNum("1"), JStr("x"), JNull}}

Values == Scalars \cup Arrays \cup InnerObjects

SmallValues == {JNum("1"), JNum("3"), JStr("x"), JNull}

Documents ==
  {JNull, JNum("1"), JArr(<<>>), JObj(<<>>)}
  \cup {O1("a", val) : val \in Values}
  \cup {O1(k, val) : k \in {"b", "_"}, val \in SmallValues}
  \cup {O2(k1, v1, k2, v2) : k1 \in {"a", "b", "c"}, k2 \in {"a", "b", "c"},
                             v1 \in SmallValues, v2 \in SmallValues}

\* ---------------------------------------------------------- state machine
Callers == 1..NumCallers

\* the one caller of the sequential specification
Caller == CHOOSE c \in Callers : \A d \in Callers : c <= d

VARIABLES schemaDef, typesOrder, parsed, topLevel, userTypes, calls

vars == <<schemaDef, typesOrder, parsed, topLevel, userTypes, calls>>

Idle == [pc |-> "idle", doc |-> JNull, res |-> Ok]

Init ==
  /\ schemaDef = JNull
  /\ typesOrder = <<>>
  /\ parsed = "none"
  /\ topLevel = NewNode("any")
  /\ userTypes = NoTypes
  /\ calls = [c \in {Caller} |-> Idle]

\* ParseSchema(raw), its range over "types" taking the order ord
ParseSchema(raw, ord) ==
  /\ parsed = "none"
  /\ \E o \in ParseSchemaIn(raw, ord) :
       /\ parsed' = IF o.ok THEN "ok" ELSE "error"
       /\ topLevel' = o.node
       /\ userTypes' = o.ut
  /\ schemaDef' = raw
  /\ typesOrder' = ord
  /\ UNCHANGED calls

\* a caller enters StorageSchema.Validate with the document raw
Call(c, raw) ==
  /\ parsed = "ok"
  /\ calls[c].pc = "idle"
  /\ calls' = [calls EXCEPT ![c] = [pc |-> "running", doc |-> raw, res |-> Ok]]
  /\ UNCHANGED <<schemaDef, typesOrder, parsed, topLevel, userTypes>>

\* faulty variant: Validate drops the required combinations once a document met them
StorageSchemaValidateConsuming(c) ==
  /\ calls[c].pc = "running"
  /\ \E r \in Validate(userTypes, topLevel, calls[c].doc) :
       /\ calls' = [calls EXCEPT ![c] = [pc |-> "done", doc |-> calls[c].doc, res |-> r]]
       /\ topLevel' = IF r.ok THEN [topLevel EXCEPT !.requiredCombs = <<>>] ELSE topLevel
  /\ UNCHANGED <<schemaDef, typesOrder, parsed, userTypes>>

\* StorageSchema.Validate runs s.topLevel.Validate(raw) and returns
StorageSchemaValidate(c) ==
  /\ calls[c].pc = "running"
  /\ \E r \in Validate(userTypes, topLevel, calls[c].doc) :
       calls' = [calls EXCEPT ![c] = [pc |-> "done", doc |-> calls[c].doc, res |-> r]]
  /\ UNCHANGED <<schemaDef, typesOrder, parsed, topLevel, userTypes>>

\* the caller takes the result and is free to call again
Return(c) ==
  /\ calls[c].pc = "done"
  /\ calls' = [calls EXCEPT ![c] = Idle]
  /\ UNCHANGED <<schemaDef, typesOrder, parsed, topLevel, userTypes>>

Next ==
  \/ \E raw \in Schemas : \E ord \in TypesOrders(raw) : ParseSchema(raw, ord)
  \/ \E raw \in Documents : Call(Caller, raw)
  \/ StorageSchemaValidate(Caller)
  \/ Return(Caller)

Spec == Init /\ [][Next]_vars

\* ------------------------------------------- several callers, one schema
ConcSchemas ==
  {O2("schema", ABC, "required", JArr(<<StrArr(<<"a">>), StrArr(<<"b", "c">>)>>)),
   Top(O2("a", O2("type", Typ("array"), "values", Typ("int")), "b", Typ("string"))),
   WithTypes(O1("t", O2("type", Typ("string"), "pattern", JStr("x"))),
             O2("a", Typ("$t"), "b", O1("keys", Typ("$t"))))}

ConcDocuments ==
  {O1("a", JNum("1")), O1("b", JNum("1")), O2("b", JNum("1"), "c", JNum("1")),
   O2("a", JArr(<<JNum("1"), JStr("1")>>), "b", JNum("1")),
   O2("a", JStr("x"), "b", O1("y", JNum("1")))}

InitConc ==
  /\ schemaDef = JNull
  /\ typesOrder = <<>>
  /\ parsed = "none"
  /\ topLevel = NewNode("any")
  /\ userTypes = NoTypes
  /\ calls = [c \in Callers |-> Idle]

NextConc ==
  \/ \E raw \in ConcSchemas : \E ord \in TypesOrders(raw) : ParseSchema(raw, ord)
  \/ \E c \in Callers : \E raw \in ConcDocuments : Call(c, raw)
  \/ \E c \in Callers : StorageSchemaValidate(c)
  \/ \E c \in Callers : Return(c)

SpecConc == InitConc /\ [][NextConc]_vars

\* ------------------------------------------------------------ the claims
Done(c) == parsed = "ok" /\ calls[c].pc = "done"

\* every node of a compiled schema: the top-level tree and the named types
RECURSIVE SubNodes(_)
SubNodes(v) ==
  {v}
  \cup (IF v.entrySchemas = None THEN {}
        ELSE UNION {SubNodes(v.entrySchemas[1][k]) : k \in DOMAIN v.entrySchemas[1]})
  \cup (IF v.keySchema = None THEN {} ELSE SubNodes(v.keySchema[1]))
  \cup (IF v.valueSchema = None THEN {} ELSE SubNodes(v.valueSchema[1]))
  \cup (IF v.elementType = None THEN {} ELSE SubNodes(v.elementType[1]))

AllNodes == SubNodes(topLevel) \cup UNION {SubNodes(userTypes[n]) : n \in DOMAIN userTypes}

\* the reference definition of "document raw conforms to node v"
RECURSIVE Conforms(_, _, _)
Conforms(ut, v, raw) ==
  CASE v.kind = "ref" -> Conforms(ut, ut[v.name], raw)
    [] raw.t = "null" -> FALSE
    [] v.kind = "string" ->
         /\ raw.t = "string"
         /\ v.choices # <<>> => \E i \in DOMAIN v.choices : v.choices[i] = raw.s
         /\ v.pattern # None => RegexpMatch(v.pattern[1], raw.s)
    [] v.kind \in {"int", "number"} ->
         /\ raw.t = "number"
         /\ v.kind = "int" => IsInt64Literal(raw.s)
         /\ v.nchoices # <<>> => \E i \in DOMAIN v.nchoices : v.nchoices[i] = ParseFloat(raw.s)
         /\ v.min # None => v.min[1] <= ParseFloat(raw.s)
         /\ v.max # None => ParseFloat(raw.s) <= v.max[1]
    [] v.kind = "bool" -> raw.t = "bool"
    [] v.kind = "any" -> TRUE
    [] v.kind = "array" ->
         /\ raw.t = "array"
         /\ \A i \in DOMAIN raw.items : Conforms(ut, v.elementType[1], raw.items[i])
         /\ v.unique => \A i, j \in DOMAIN raw.items : raw.items[i] = raw.items[j] => i = j
    [] v.kind = "map" ->
         /\ raw.t = "object"
         /\ \A k \in ObjKeys(raw) : validSubkey(k)
         /\ IF v.entrySchemas # None
              THEN /\ ObjKeys(raw) \subseteq DOMAIN v.entrySchemas[1]
                   /\ v.requiredCombs # <<>> =>
                        \E i \in DOMAIN v.requiredCombs :
                          Range(v.requiredCombs[i]) \subseteq ObjKeys(raw)
                   /\ \A k \in ObjKeys(raw) :
                        Conforms(ut, v.entrySchemas[1][k], ObjGet(raw, k))
              ELSE \A k \in ObjKeys(raw) :
                     /\ v.keySchema # None => Conforms(ut, v.keySchema[1], JStr(k))
                     /\ v.valueSchema # None => Conforms(ut, v.valueSchema[1], ObjGet(raw, k))

\* C1: Validate accepts a document exactly when the document conforms to
\* the compiled schema, and the verdict is the same for every order in
\* which the keys of an object are iterated.
C1_ValidateIffConforms ==
  Done(Caller) =>
    /\ calls[Caller].res.ok <=> Conforms(userTypes, topLevel, calls[Caller].doc)
    /\ \A r \in Validate(userTypes, topLevel, calls[Caller].doc) :
         r.ok = calls[Caller].res.ok

\* a rejected document with two invalid entries, where the error reported
\* depends on the iteration order
C1_Witness ==
  /\ Done(Caller)
  /\ ~calls[Caller].res.ok
  /\ Cardinality(Validate(userTypes, topLevel, calls[Caller].doc)) > 1


\* the key-sets a "required" constraint lists: a flat list is one set
RequiredAlternatives(raw) ==
  IF ~Has(raw, "required") THEN {}
  ELSE LET r == ObjGet(raw, "required")
       IN IF \E i \in DOMAIN r.items : r.items[i].t = "string"
            THEN {{r.items[i].s : i \in DOMAIN r.items}}
            ELSE {{r.items[i].items[j].s : j \in DOMAIN r.items[i].items}
                  : i \in DOMAIN r.items}

\* C2: a map compiled with "schema" passes the required-keys check exactly
\* when one listed key-set is fully present (a flat list being one set),
\* and requires no key when "required" is absent or an empty list.
C2_RequiredCombinations ==
  (/\ Done(Caller)
   /\ calls[Caller].doc.t = "object"
   /\ \A k \in ObjKeys(calls[Caller].doc) :
        validSubkey(k) /\ k \in DOMAIN topLevel.entrySchemas[1])
  => (calls[Caller].res.err = "required" /\ calls[Caller].res.path = <<>>
      <=> /\ RequiredAlternatives(schemaDef) # {}
          /\ \A alt \in RequiredAlternatives(schemaDef) :
               ~(alt \subseteq ObjKeys(calls[Caller].doc)))

\* a document accepted through the second of two alternatives
C2_Witness ==
  /\ Done(Caller)
  /\ Cardinality(RequiredAlternatives(schemaDef)) = 2
  /\ ObjKeys(calls[Caller].doc) = {"b", "c"}
  /\ calls[Caller].res.ok

\* C3: no String, Int or Number node of a compiled schema holds "choices"
\* together with "pattern", "min" or "max".
C3_NoChoicesConflict ==
  parsed = "ok" =>
    \A n \in AllNodes :
      n.kind \in {"string", "int", "number"} =>
        ~(/\ n.choices # <<>> \/ n.nchoices # <<>>
          /\ n.pattern # None \/ n.min # None \/ n.max # None)

\* C4: every Map node of a compiled schema has exactly one of its two
\* shapes populated, and required combinations only with entry schemas.
C4_MapShapeExclusive ==
  parsed = "ok" =>
    \A n \in AllNodes :
      n.kind = "map" =>
        /\ \/ n.entrySchemas # None /\ n.keySchema = None /\ n.valueSchema = None
           \/ n.entrySchemas = None /\ (n.keySchema # None \/ n.valueSchema # None)
        /\ n.requiredCombs # <<>> => n.entrySchemas # None

\* what ParseSchema can answer when its range over "types" takes order ord
CompileVerdicts(raw, ord) == {o.ok : o \in ParseSchemaIn(raw, ord)}

\* ... and what the schemas it then returns can answer for a document
ValidateVerdicts(raw, ord, doc) ==
  UNION {{r.ok : r \in Validate(o.ut, o.node, doc)}
         : o \in {o \in ParseSchemaIn(raw, ord) : o.ok}}

\* C5: the outcome of ParseSchema, and the documents the result accepts, do
\* not depend on the order in which the entries of "types" are processed.
C5_TypesOrderIrrelevant ==
  parsed # "none" =>
    \A ord \in TypesOrders(schemaDef) :
      /\ CompileVerdicts(schemaDef, ord) = CompileVerdicts(schemaDef, typesOrder)
      /\ calls[Caller].pc = "done" =>
           ValidateVerdicts(schemaDef, ord, calls[Caller].doc)
             = ValidateVerdicts(schemaDef, typesOrder, calls[Caller].doc)

\* a null at a position of the document that a node validates
RECURSIVE NullAtTypedPosition(_, _, _)
NullAtTypedPosition(ut, v, raw) ==
  CASE raw.t = "null" -> TRUE
    [] v.kind = "ref" -> NullAtTypedPosition(ut, ut[v.name], raw)
    [] v.kind = "array" /\ raw.t = "array" ->
         \E i \in DOMAIN raw.items : NullAtTypedPosition(ut, v.elementType[1], raw.items[i])
    [] v.kind = "map" /\ raw.t = "object" /\ v.entrySchemas # None ->
         \E k \in ObjKeys(raw) \cap DOMAIN v.entrySchemas[1] :
           NullAtTypedPosition(ut, v.entrySchemas[1][k], ObjGet(raw, k))
    [] v.kind = "map" /\ raw.t = "object" /\ v.valueSchema # None ->
         \E k \in ObjKeys(raw) : NullAtTypedPosition(ut, v.valueSchema[1], ObjGet(raw, k))
    [] OTHER -> FALSE

\* C6: every node of a compiled schema rejects null, at the top level, as
\* a map value and as an array element.
C6_NullNeverValid ==
  parsed = "ok" =>
    /\ \A n \in AllNodes : \A r \in Validate(userTypes, n, JNull) : ~r.ok
    /\ Done(Caller) /\ NullAtTypedPosition(userTypes, topLevel, calls[Caller].doc)
         => ~calls[Caller].res.ok

\* a null array element, rejected at its index
C6_Witness ==
  /\ Done(Caller)
  /\ calls[Caller].res.err = "null"
  /\ Len(calls[Caller].res.path) = 2
  /\ ~calls[Caller].res.path[2].isKey


\* the node a reference stands for
RECURSIVE Resolve(_, _)
Resolve(ut, v) == IF v.kind = "ref" THEN Resolve(ut, ut[v.name]) ELSE v

\* C9: an exact-shape map rejects every document that has a key without
\* an entry schema, whatever its other keys and values are.
C9_UnexpectedKeyRejected ==
  parsed = "ok" =>
    /\ (/\ Done(Caller)
        /\ calls[Caller].doc.t = "object"
        /\ \E k \in ObjKeys(calls[Caller].doc) : k \notin DOMAIN topLevel.entrySchemas[1])
       => ~calls[Caller].res.ok
    /\ \A n \in AllNodes : \A d \in InnerObjects :
         (/\ n.kind = "map"
          /\ n.entrySchemas # None
          /\ \E k \in ObjKeys(d) : k \notin DOMAIN n.entrySchemas[1])
         => \A r \in Validate(userTypes, n, d) : ~r.ok

\* a document whose declared key is present and valid, with one more key
C9_Witness ==
  /\ Done(Caller)
  /\ DOMAIN topLevel.entrySchemas[1] = {"a"}
  /\ ObjKeys(calls[Caller].doc) = {"a", "b"}
  /\ Conforms(userTypes, topLevel.entrySchemas[1]["a"], ObjGet(calls[Caller].doc, "a"))
  /\ calls[Caller].res.err = "unexpected-key"

\* the array written under the single key "a" of the document, when the
\* entry "a" of the schema is an array node
ArrayCase ==
  /\ Done(Caller)
  /\ "a" \in DOMAIN topLevel.entrySchemas[1]
  /\ Resolve(userTypes, topLevel.entrySchemas[1]["a"]).kind = "array"
  /\ calls[Caller].doc.t = "object"
  /\ Len(calls[Caller].doc.pairs) = 1
  /\ calls[Caller].doc.pairs[1].k = "a"
  /\ calls[Caller].doc.pairs[1].v.t = "array"

\* C10: with unique=true and all elements of the element type, an array
\* is rejected exactly when two elements are byte-identical; without
\* unique, duplicates are accepted; an invalid element is reported before
\* any duplicate.
C10_UniqueByBytes ==
  ArrayCase =>
    LET arr == Resolve(userTypes, topLevel.entrySchemas[1]["a"])
        items == calls[Caller].doc.pairs[1].v.items
        res == calls[Caller].res
        bad == {i \in DOMAIN items : ~Conforms(userTypes, arr.elementType[1], items[i])}
    IN IF bad # {}
         THEN /\ ~res.ok
              /\ Len(res.path) >= 2
              /\ res.path[1] = Key("a")
              /\ res.path[2] = Idx((CHOOSE i \in bad : \A j \in bad : i <= j) - 1)
         ELSE IF arr.unique
           THEN /\ ~res.ok <=> \E i, j \in DOMAIN items : i # j /\ items[i] = items[j]
                /\ ~res.ok => res.err = "duplicate" /\ res.path = <<Key("a")>>
           ELSE res.ok

\* two byte-identical objects in a unique array
C10_Witness ==
  /\ ArrayCase
  /\ calls[Caller].res.err = "duplicate"
  /\ calls[Caller].doc.pairs[1].v.items[1].t = "object"


\* C7: after ParseSchema returns, no call changes the schema, and every
\* call, whatever other calls run meanwhile, returns a result that
\* Validate gives for its document on the schema ParseSchema returned.
C7_ReadOnlySchema ==
  /\ [][parsed = "ok" => topLevel' = topLevel /\ userTypes' = userTypes]_vars
  /\ [](parsed = "ok" =>
          /\ Parsed(topLevel, userTypes) \in ParseSchemaIn(schemaDef, typesOrder)
          /\ \A c \in Callers :
               calls[c].pc = "done" =>
                 calls[c].res \in Validate(userTypes, topLevel, calls[c].doc))

\* one call has returned an error while another is still inside Validate
C7_Witness ==
  /\ parsed = "ok"
  /\ \E c, d \in Callers :
       /\ calls[c].pc = "running"
       /\ calls[d].pc = "done"
       /\ ~calls[d].res.ok
       /\ calls[d].res.path # <<>>


\* the path written with dots and brackets, built from its last locator
RECURSIVE PathText(_)
PathText(path) ==
  IF path = <<>> THEN ""
  ELSE LET n == Len(path)
           last == path[n]
       IN PathText(SubSeq(path, 1, n - 1))
          \o (IF ~last.isKey THEN "[" \o ToString(last.idx) \o "]"
              ELSE IF n = 1 THEN last.key
              ELSE "." \o last.key)

\* node v checks raw itself and fails with e, not one of its children
OwnCheckFails(ut, v, raw, e) ==
  /\ validationErrorf(e) \in Validate(ut, v, raw)
  /\ ~Conforms(ut, v, raw)

\* from locator i on, path leads from raw (checked by v) to an element
\* whose own check fails with e; with keyToo, the last locator may instead
\* name an entry whose key the map's key schema rejects with e
RECURSIVE LeadsToFailure(_, _, _, _, _, _, _)
LeadsToFailure(ut, v, raw, path, i, e, keyToo) ==
  LET n == Resolve(ut, v)
  IN IF i > Len(path) THEN OwnCheckFails(ut, v, raw, e)
     ELSE IF path[i].isKey
       THEN /\ n.kind = "map"
            /\ raw.t = "object"
            /\ path[i].key \in ObjKeys(raw)
            /\ IF n.entrySchemas # None
                 THEN /\ path[i].key \in DOMAIN n.entrySchemas[1]
                      /\ LeadsToFailure(ut, n.entrySchemas[1][path[i].key],
                                        ObjGet(raw, path[i].key), path, i + 1, e, keyToo)
                 ELSE \/ /\ n.valueSchema # None
                         /\ LeadsToFailure(ut, n.valueSchema[1],
                                           ObjGet(raw, path[i].key), path, i + 1, e, keyToo)
                      \/ /\ keyToo
                         /\ i = Len(path)
                         /\ n.keySchema # None
                         /\ OwnCheckFails(ut, n.keySchema[1], JStr(path[i].key), e)
       ELSE /\ n.kind = "array"
            /\ raw.t = "array"
            /\ path[i].idx + 1 \in DOMAIN raw.items
            /\ LeadsToFailure(ut, n.elementType[1], raw.items[path[i].idx + 1],
                              path, i + 1, e, keyToo)

\* the message of a failed call is the top-level message exactly for an
\* empty path, and otherwise quotes the dotted and bracketed path
RendersPath(r) ==
  /\ r.path = <<>> <=> ValidationErrorMsg(r) = "cannot accept top level element"
  /\ r.path # <<>> =>
       ValidationErrorMsg(r) = "cannot accept element in \"" \o PathText(r.path) \o "\""

\* C8 as stated: the path of a failed Validate leads, outermost locator
\* first, to the element whose own check failed, and that element does not
\* conform to its node; it is empty exactly for a top-level failure and is
\* rendered with dots and brackets.
C8_PathLeadsToFailedElement ==
  Done(Caller) /\ ~calls[Caller].res.ok =>
    /\ LeadsToFailure(userTypes, topLevel, calls[Caller].doc,
                      calls[Caller].res.path, 1, calls[Caller].res.err, FALSE)
    /\ RendersPath(calls[Caller].res)

\* C8 as amended: the path leads to the element whose own check failed or,
\* in a map with a "keys" constraint, to the entry whose key the key schema
\* rejects.
C8_PathLeadsToFailedElementOrKey ==
  Done(Caller) /\ ~calls[Caller].res.ok =>
    /\ LeadsToFailure(userTypes, topLevel, calls[Caller].doc,
                      calls[Caller].res.path, 1, calls[Caller].res.err, TRUE)
    /\ RendersPath(calls[Caller].res)

\* the second element of the array under key a fails: a[1]
C8_Witness ==
  /\ Done(Caller)
  /\ calls[Caller].res.path = <<Key("a"), Idx(1)>>
  /\ calls[Caller].res.err = "type"
  /\ ValidationErrorMsg(calls[Caller].res) = "cannot accept element in \"a[1]\""


\* every JSON object written somewhere in raw
RECURSIVE ObjectsIn(_)
ObjectsIn(raw) ==
  IF raw.t = "object"
    THEN {raw} \cup UNION {ObjectsIn(raw.pairs[i].v) : i \in DOMAIN raw.pairs}
  ELSE IF raw.t = "array"
    THEN UNION {ObjectsIn(raw.items[i]) : i \in DOMAIN raw.items}
  ELSE {}

\* the values written for a "keys" constraint in the schema
KeysConstraints(raw) == {ObjGet(d, "keys") : d \in {d \in ObjectsIn(raw) : Has(d, "keys")}}

\* the type a declaration or constraint names, "map" when it names none
NamedType(d) ==
  IF d.t = "string" THEN d.s
  ELSE IF d.t = "object" /\ Has(d, "type") THEN ObjGet(d, "type").s
  ELSE IF d.t = "object" THEN "map"
  ELSE ""

Declares(raw, n) ==
  /\ raw.t = "object" /\ Has(raw, "types")
  /\ ObjGet(raw, "types").t = "object"
  /\ n \in ObjKeys(ObjGet(raw, "types"))

NonStringTypes == {"int", "number", "bool", "map", "array", "any"}

\* keys names a user type whose declaration is a string type
NamesStringType(raw, keys) ==
  /\ keys.t = "string" /\ IsRef(keys.s)
  /\ Declares(raw, TrimDollar(keys.s))
  /\ NamedType(ObjGet(ObjGet(raw, "types"), TrimDollar(keys.s))) = "string"

\* keys names a non-string type, or a user type declared as one
NamesNonStringType(raw, keys) ==
  \/ keys.t = "string" /\ keys.s \in NonStringTypes
  \/ keys.t = "object" /\ Has(keys, "type") /\ ObjGet(keys, "type").s \in NonStringTypes
  \/ /\ keys.t = "string" /\ IsRef(keys.s)
     /\ Declares(raw, TrimDollar(keys.s))
     /\ NamedType(ObjGet(ObjGet(raw, "types"), TrimDollar(keys.s))) \in NonStringTypes

\* raw with every "keys" constraint that names a string user type rewritten
\* to the plain "string"
RECURSIVE PlainStringKeys(_, _)
PlainStringKeys(top, raw) ==
  IF raw.t # "object" THEN raw
  ELSE JObj([i \in DOMAIN raw.pairs |->
               IF raw.pairs[i].k = "keys" /\ NamesStringType(top, raw.pairs[i].v)
                 THEN P("keys", JStr("string"))
                 ELSE P(raw.pairs[i].k, PlainStringKeys(top, raw.pairs[i].v))])

StringBasedNode(ut, v) ==
  \/ v.kind = "string"
  \/ v.kind = "ref" /\ v.name \in DOMAIN ut /\ ut[v.name].kind = "string"

\* C11: in a compiled schema the keySchema of every map node is string-based;
\* a "keys" constraint naming a user type declared as a string type compiles
\* (a run of ParseSchema fails only if it can fail too with that constraint
\* written as plain "string"), and a "keys" constraint naming a non-string type or a
\* user type declared as one makes compilation fail.
C11_KeysStringBased ==
  /\ parsed = "ok" =>
       \A n \in AllNodes :
         n.kind = "map" /\ n.keySchema # None => StringBasedNode(userTypes, n.keySchema[1])
  /\ parsed = "error" =>
       \E o \in ParseSchemaIn(PlainStringKeys(schemaDef, schemaDef), typesOrder) : ~o.ok
  /\ (\E k \in KeysConstraints(schemaDef) : NamesNonStringType(schemaDef, k)) =>
       parsed # "ok"


\* no "$name" is written anywhere in raw
RECURSIVE ReferenceFree(_)
ReferenceFree(raw) ==
  CASE raw.t = "string" -> ~IsRef(raw.s)
    [] raw.t = "object" -> \A i \in DOMAIN raw.pairs : ReferenceFree(raw.pairs[i].v)
    [] raw.t = "array" -> \A i \in DOMAIN raw.items : ReferenceFree(raw.items[i])
    [] OTHER -> TRUE

\* the nodes the declaration of n compiles to on its own
DeclaredAlone(raw, n) ==
  {o.node : o \in {o \in parse(NoTypes, ObjGet(ObjGet(raw, "types"), n)) : o.ok}}

\* C12: after ParseSchema has compiled every reference ("$name" or an object
\* {"type":"$name", ...}), the node registered under each name holds the
\* constraints its declaration alone gives it.
C12_ReferenceLeavesTypeUnchanged ==
  parsed = "ok" =>
    \A n \in DOMAIN userTypes :
      ReferenceFree(ObjGet(ObjGet(schemaDef, "types"), n)) =>
        userTypes[n] \in DeclaredAlone(schemaDef, n)


\* the first of the checks 1 to 4 of an exact-schema map that raw fails, as
\* the error it raises, or "" when raw passes all four
FirstFailedCheck(v, raw) ==
  IF raw.t = "null" THEN "null"
  ELSE IF raw.t # "object" THEN "type"
  ELSE IF \E k \in ObjKeys(raw) : ~validSubkey(k) THEN "key-format"
  ELSE IF \E k \in ObjKeys(raw) : k \notin DOMAIN v.entrySchemas[1] THEN "unexpected-key"
  ELSE IF /\ v.requiredCombs # <<>>
          /\ \A i \in DOMAIN v.requiredCombs :
               \E j \in DOMAIN v.requiredCombs[i] : v.requiredCombs[i][j] \notin ObjKeys(raw)
    THEN "required"
  ELSE ""

\* result r of validating raw against node v respects the order of checks at
\* every exact-schema map on its path
RECURSIVE ChecksInOrder(_, _, _, _)
ChecksInOrder(ut, v, raw, r) ==
  LET n == Resolve(ut, v)
  IN IF n.kind = "map" /\ n.entrySchemas # None
       THEN IF FirstFailedCheck(n, raw) # ""
              THEN r = validationErrorf(FirstFailedCheck(n, raw))
              ELSE \/ r.ok
                   \/ /\ r.path # <<>>
                      /\ r.path[1].isKey
                      /\ r.path[1].key \in ObjKeys(raw) \cap DOMAIN n.entrySchemas[1]
                      /\ ChecksInOrder(ut, n.entrySchemas[1][r.path[1].key],
                                       ObjGet(raw, r.path[1].key),
                                       [r EXCEPT !.path = Tail(r.path)])
     ELSE IF n.kind = "array" /\ raw.t = "array" /\ r.path # <<>> /\ ~r.path[1].isKey
       THEN /\ r.path[1].idx + 1 \in DOMAIN raw.items
            /\ ChecksInOrder(ut, n.elementType[1], raw.items[r.path[1].idx + 1],
                             [r EXCEPT !.path = Tail(r.path)])
     ELSE TRUE

\* C13: an exact-schema map checks, in this order, that the value is a
\* non-null object, the key grammar, unexpected keys, the required
\* combinations and then the values; the first failing check gives the error,
\* with no key of that map in the path unless checks 1 to 4 pass.
C13_MapChecksInOrder ==
  Done(Caller) =>
    ChecksInOrder(userTypes, topLevel, calls[Caller].doc, calls[Caller].res)

\* no required combination is present and a declared key holds an invalid
\* value: the required-keys error is reported, with an empty path
C13_Witness ==
  /\ Done(Caller)
  /\ calls[Caller].res = validationErrorf("required")
  /\ \E k \in ObjKeys(calls[Caller].doc) \cap DOMAIN topLevel.entrySchemas[1] :
       \A r \in Validate(userTypes, topLevel.entrySchemas[1][k], ObjGet(calls[Caller].doc, k)) :
         ~r.ok


====
